---- MODULE Spec2Model ----
(***************************************************************************)
(* Model of riptide's peak detection (riptide/peak_detection.py):          *)
(* segment(), segment_stats(), the two threshold policies,                 *)
(* find_peaks_single(), find_peaks() and the Detection data product.       *)
(*                                                                         *)
(* Numbers.  Periods, tobs and widths are positive integers.  S/N values   *)
(* are integers in units of 0.5 (snr_min = 6.5 is 13).  Every quotient the *)
(* code forms (tobs / period, percentiles, sigma, the duty cycle) is kept  *)
(* as an exact rational <<num, den>> with den > 0 and compared by cross    *)
(* multiplication; floating-point rounding is not modelled.  Array indices *)
(* (istart, iend, imid, iw, cluster members) keep the code's 0-based       *)
(* values; a TLA+ sequence holds element i of an array at position i + 1.  *)
(*                                                                         *)
(* Library calls.  np.log is a fixed-point table (Ln10).  np.polyfit is    *)
(* exact for degree 0 and an arbitrary coefficient vector for degree >= 1. *)
(* np.percentile of an empty slice either raises (SingleRaises) or gives   *)
(* nan (SingleReturns), depending on the numpy build; comparisons with nan *)
(* are False.  cluster_1d lives in riptide/clustering.py and is modelled   *)
(* from its contract: sort the values, split where a gap is >= r.          *)
(*                                                                         *)
(* The grid always has one row per period trial; its number of columns may *)
(* differ from the number of width trials (SpecMalformed).                 *)
(***************************************************************************)
EXTENDS Integers, Sequences, FiniteSets, TLC

VARIABLES
    pgram,       \* the Periodogram: periods, widths, snrs, tobs, metadata, bins_avg
    cfg,         \* keyword arguments of find_peaks
    pc,          \* position of the find_peaks call
    boundaries,  \* output of segment()
    iwidth,      \* loop variable of find_peaks (0-based)
    singles,     \* per width: what find_peaks_single returned
    all_peaks,   \* pooled Peaks
    detections,  \* result of find_peaks
    built        \* what each Detection exposed right after construction

vars == <<pgram, cfg, pc, boundaries, iwidth, singles, all_peaks, detections, built>>

---------------------------------------------------------------------------
(* Bounds of the model *)

\* longest period-trial array of the segmentation specification
MaxSegTrials == 5
\* longest period-trial array of the pipeline specification
MaxTrials == 2

\* trial periods of the segmentation specification
SegPeriodVals == 1..6
\* trial periods of the pipeline specification
PeriodVals == {1, 2, 3, 4}
\* observation durations
TobsVals == {12, 30}

---------------------------------------------------------------------------
(* Arithmetic helpers *)

Max(a, b) == IF a >= b THEN a ELSE b
Min(a, b) == IF a <= b THEN a ELSE b
Abs(a) == IF a >= 0 THEN a ELSE -a

\* Python's int() of the quotient a / b (b > 0): truncation toward zero
TruncDiv(a, b) == IF a >= 0 THEN a \div b ELSE -((-a) \div b)

\* rationals <<n, d>>, d > 0
RLess(a, b) == a[1] * b[2] < b[1] * a[2]
RLeq(a, b) == a[1] * b[2] <= b[1] * a[2]
REq(a, b) == a[1] * b[2] = b[1] * a[2]
RSub(a, b) == <<a[1] * b[2] - b[1] * a[2], a[2] * b[2]>>
RAdd(a, b) == <<a[1] * b[2] + b[1] * a[2], a[2] * b[2]>>
RMul(a, b) == <<a[1] * b[1], a[2] * b[2]>>
RAbs(a) == <<Abs(a[1]), a[2]>>
RMax(a, b) == IF RLess(a, b) THEN b ELSE a

\* 0-based indexing of an array held as a sequence
At(arr, i) == arr[i + 1]

Range(s) == {s[i] : i \in DOMAIN s}

RECURSIVE SumSeq(_)
SumSeq(s) == IF s = <<>> THEN 0 ELSE Head(s) + SumSeq(Tail(s))

---------------------------------------------------------------------------
(* segment(periods, tobs, segment_dftbins_length) *)

\* tobs / periods[0] - tobs / periods[-1]
dbi_range(periods, tobs) ==
    RSub(<<tobs, periods[1]>>, <<tobs, periods[Len(periods)]>>)

\* max(1, int(dbi_range / segment_dftbins_length))
nseg_of(periods, tobs, seglen) ==
    LET q == dbi_range(periods, tobs)
    IN  Max(1, TruncDiv(q[1] * seglen[2], q[2] * seglen[1]))

\* len(periods) // nseg
slen_of(periods, tobs, seglen) == Len(periods) \div nseg_of(periods, tobs, seglen)

\* 10 * ln(p) rounded to the nearest integer: np.log in fixed point
Ln10(p) ==
    CASE p = 1 -> 0 [] p = 2 -> 7 [] p = 3 -> 11 [] p = 4 -> 14
      [] p = 5 -> 16 [] p = 6 -> 18 [] p = 7 -> 19 [] OTHER -> 21

\* segment() without the correction of the last boundary
mutant_last_iend(periods, tobs, seglen) ==
    nseg_of(periods, tobs, seglen) * slen_of(periods, tobs, seglen)

\* boundaries[-1] = (last[0], len(periods))
last_iend(periods, tobs, seglen) == Len(periods)

segment(periods, tobs, seglen) ==
    LET nseg == nseg_of(periods, tobs, seglen)
        slen == slen_of(periods, tobs, seglen)
        bnd(k) == IF k < nseg
                  THEN <<(k - 1) * slen, k * slen>>
                  ELSE <<(k - 1) * slen, last_iend(periods, tobs, seglen)>>
        row(k) == LET imid == (bnd(k)[1] + bnd(k)[2]) \div 2
                  IN  [istart |-> bnd(k)[1], iend |-> bnd(k)[2], imid |-> imid,
                       pmid |-> At(periods, imid),
                       logpmid |-> Ln10(At(periods, imid))]
    IN  [k \in 1..nseg |-> row(k)]

---------------------------------------------------------------------------
(* segment_stats(snrs, boundaries) *)

\* snrs[s:e] of a column held as a sequence
slice(col, s, e) == SubSeq(col, s + 1, Min(e, Len(col)))

\* the values of a sequence in ascending order
RECURSIVE sorted(_)
sorted(s) ==
    IF s = <<>> THEN <<>>
    ELSE LET k == CHOOSE k \in DOMAIN s : \A j \in DOMAIN s : s[k] <= s[j]
         IN  <<s[k]>> \o sorted(SubSeq(s, 1, k - 1) \o SubSeq(s, k + 1, Len(s)))

\* np.percentile(a, 25 * k), linear interpolation, as a rational over 4
percentile(a, k) ==
    LET srt == sorted(a)
        n == Len(a)
        pos4 == k * (n - 1)
        lo == pos4 \div 4
        hi == Min(lo + 1, n - 1)
    IN  <<4 * At(srt, lo) + (pos4 % 4) * (At(srt, hi) - At(srt, lo)), 4>>

\* One row of the stats DataFrame.  np.percentile of an empty slice gives
\* nan in the builds where it does not raise: nan |-> TRUE, values unused.
stats_row(col, seg) ==
    LET a == slice(col, seg.istart, seg.iend)
    IN  IF a = <<>>
        THEN [nan |-> TRUE, p25 |-> <<0, 4>>, median |-> <<0, 4>>, p75 |-> <<0, 4>>,
              sigma |-> <<0, 5396>>, pmid |-> seg.pmid, logpmid |-> seg.logpmid]
        ELSE [nan |-> FALSE, p25 |-> percentile(a, 1), median |-> percentile(a, 2),
              p75 |-> percentile(a, 3),
              sigma |-> <<(percentile(a, 3)[1] - percentile(a, 1)[1]) * 1000, 4 * 1349>>,
              pmid |-> seg.pmid, logpmid |-> seg.logpmid]

segment_stats(col, bnds) == [k \in DOMAIN bnds |-> stats_row(col, bnds[k])]

has_nan(stats) == \E k \in DOMAIN stats : stats[k].nan

---------------------------------------------------------------------------
(* Threshold policies.  A threshold function is the record                 *)
(* [dynamic, polyco, snr_min]; tfunc_at evaluates it at one period.        *)

\* poly(x): Horner evaluation, highest-degree coefficient first
RECURSIVE polyval(_, _)
polyval(co, x) ==
    IF Len(co) = 1 THEN co[1]
    ELSE RAdd(RMul(polyval(SubSeq(co, 1, Len(co) - 1), x), x), co[Len(co)])

\* y = stats['median'] + nsigma * stats['sigma'], over the common
\* denominator 4 * 1349 * nsigma[2]
y_num(row, nsigma) ==
    row.median[1] * 1349 * nsigma[2] + nsigma[1] * row.sigma[1]
y_den(nsigma) == 4 * 1349 * nsigma[2]

\* np.polyfit(x, y, polydeg).  Degree 0: the least-squares constant is the
\* mean of y, computed exactly.  Degree >= 1: the least-squares solution in
\* log(period) is not rational; fit is the coefficient vector np.polyfit
\* returned, any vector of length polydeg + 1.
polyfit(stats, nsigma, polydeg, fit) ==
    IF polydeg = 0
    THEN << <<SumSeq([k \in DOMAIN stats |-> y_num(stats[k], nsigma)]),
              Len(stats) * y_den(nsigma)>> >>
    ELSE fit

\* func without the floor
mutant_clamp(v, snr_min) == v

\* np.maximum(v, snr_min)
clamp(v, snr_min) == RMax(v, <<snr_min, 1>>)

\* A fit through nan statistics has nan coefficients (nan |-> TRUE, polyco
\* unused): every threshold value is then nan.
threshold_function_dynamic(stats, snr_min, nsigma, polydeg, fit) ==
    [dynamic |-> TRUE, nan |-> has_nan(stats),
     polyco |-> IF has_nan(stats) THEN [k \in 1..(polydeg + 1) |-> <<0, 1>>]
                ELSE polyfit(stats, nsigma, polydeg, fit),
     snr_min |-> snr_min]

threshold_function_static(snr_min, polydeg) ==
    [dynamic |-> FALSE, nan |-> FALSE,
     polyco |-> [k \in 1..(polydeg + 1) |-> <<0, 1>>],
     snr_min |-> snr_min]

\* func(period) at one element of the period array
tfunc_at(tf, period) ==
    IF tf.nan THEN [nan |-> TRUE, val |-> <<0, 1>>]
    ELSE IF tf.dynamic
    THEN [nan |-> FALSE,
          val |-> clamp(polyval(tf.polyco, <<Ln10(period), 10>>), tf.snr_min)]
    ELSE [nan |-> FALSE, val |-> <<tf.snr_min, 1>>]

---------------------------------------------------------------------------
(* cluster_1d(x, r) of riptide/clustering.py *)

\* x.argsort(): 0-based indices by ascending value, equal values in index order
RECURSIVE argsort_from(_, _)
argsort_from(x, left) ==
    IF left = {} THEN <<>>
    ELSE LET i == CHOOSE i \in left : \A j \in left :
                      \/ RLess(At(x, i), At(x, j))
                      \/ REq(At(x, i), At(x, j)) /\ i <= j
         IN  <<i>> \o argsort_from(x, left \ {i})

argsort(x) == argsort_from(x, 0..(Len(x) - 1))

\* groups of the first k sorted indices: split where the gap is >= r
RECURSIVE cluster_fold(_, _, _, _)
cluster_fold(x, r, idx, k) ==
    IF k = 0 THEN <<>>
    ELSE IF k = 1 THEN << <<idx[1]>> >>
    ELSE LET prev == cluster_fold(x, r, idx, k - 1)
             gap == RSub(At(x, idx[k]), At(x, idx[k - 1]))
         IN  IF RLeq(r, gap)
             THEN Append(prev, <<idx[k]>>)
             ELSE [prev EXCEPT ![Len(prev)] = Append(@, idx[k])]

cluster_1d(x, r) == cluster_fold(x, r, argsort(x), Len(x))

---------------------------------------------------------------------------
(* Peak and find_peaks_single *)

Peak(period, snr, dm, iw, width, ducy) ==
    [period |-> period, snr |-> snr, dm |-> dm, iw |-> iw, width |-> width,
     ducy |-> ducy]

\* snrs >= threshold instead of snrs > threshold
mutant_significant(snr, thr) == ~thr.nan /\ RLeq(thr.val, <<snr, 1>>)

\* snrs > threshold, one element; a comparison with nan is False
significant(snr, thr) == ~thr.nan /\ RLess(thr.val, <<snr, 1>>)

\* len(boundaries) <= min_segments instead of <
mutant_use_static(nsegments, min_segments) == nsegments <= min_segments

\* len(boundaries) < min_segments
use_static(nsegments, min_segments) == nsegments < min_segments

\* a.argmax(): the first 0-based position of the maximum
argmax(a) ==
    CHOOSE k \in 0..(Len(a) - 1) :
        /\ \A j \in 0..(Len(a) - 1) : At(a, j) <= At(a, k)
        /\ \A j \in 0..(k - 1) : At(a, j) < At(a, k)

\* np.where(mask)[0]: the 0-based positions where mask holds, ascending
RECURSIVE where_upto(_, _)
where_upto(mask, n) ==
    IF n = 0 THEN <<>>
    ELSE IF mask[n] THEN Append(where_upto(mask, n - 1), n - 1)
    ELSE where_upto(mask, n - 1)

where(mask) == where_upto(mask, Len(mask))

\* pgram.snrs[:, iwidth]
column(pg, iw) == [i \in 1..Len(pg.snrs) |-> At(pg.snrs[i], iw)]

ncols(pg) == Len(pg.snrs[1])

\* the loop body taking the cluster's first trial instead of its argmax
mutant_peak_of(periods, col, peak_indices, pg, iw) ==
    Peak(At(periods, peak_indices[1]), At(col, peak_indices[1]),
         pg.metadata.dm, iw, At(pg.widths, iw), <<At(pg.widths, iw), pg.bins_avg>>)

\* body of the loop over clusters: the Peak of one cluster
peak_of(periods, col, peak_indices, pg, iw) ==
    LET periods_slice == [k \in DOMAIN peak_indices |-> At(periods, peak_indices[k])]
        snrs_slice == [k \in DOMAIN peak_indices |-> At(col, peak_indices[k])]
        imax == argmax(snrs_slice)
        width == At(pg.widths, iw)
    IN  Peak(At(periods_slice, imax), At(snrs_slice, imax), pg.metadata.dm,
             iw, width, <<width, pg.bins_avg>>)

find_peaks_single(pg, iw, bnds, c, fit) ==
    LET periods == pg.periods
        snrs == column(pg, iw)
        stats == segment_stats(snrs, bnds)
        tf == IF use_static(Len(bnds), c.min_segments)
              THEN threshold_function_static(c.snr_min, c.polydeg)
              ELSE threshold_function_dynamic(stats, c.snr_min, c.nsigma,
                                              c.polydeg, fit)
        threshold == [i \in 1..Len(periods) |-> tfunc_at(tf, periods[i])]
        significant_mask == [i \in 1..Len(periods) |->
                                significant(snrs[i], threshold[i])]
        significant_indices == where(significant_mask)
        dbi == [k \in DOMAIN significant_indices |->
                   <<pg.tobs, At(periods, significant_indices[k])>>]
        clusters == cluster_1d(dbi, c.peak_clustering_radius)
        cluster_peak(cli) ==
            peak_of(periods, snrs,
                    [k \in DOMAIN cli |-> At(significant_indices, cli[k])], pg, iw)
    IN  [stats |-> stats, polyco |-> tf.polyco, threshold |-> threshold,
         peaks |-> [g \in DOMAIN clusters |-> cluster_peak(clusters[g])],
         tfunc |-> tf]

---------------------------------------------------------------------------
(* Detection.  A data attribute of a Detection is either an array of its   *)
(* own (shared |-> FALSE, val the contents) or the very object the         *)
(* Periodogram holds (shared |-> TRUE, obj the Periodogram attribute).     *)

\* arr[index_array]: numpy advanced indexing allocates a new array
fancy_index(contents) == [shared |-> FALSE, obj |-> "", val |-> contents]

\* arr[:]: numpy basic slicing gives a view of the same buffer
basic_slice(attr) == [shared |-> TRUE, obj |-> attr, val |-> <<>>]

\* plain assignment of an object reference
reference(attr) == [shared |-> TRUE, obj |-> attr, val |-> <<>>]

\* what reading the attribute gives now
read(field, pg) == IF field.shared THEN pg[field.obj] ELSE field.val

\* the group's first Peak instead of its maximum
mutant_top_of(peaks) == peaks[1]

\* max(peaks, key=operator.attrgetter('snr')): the first Peak of maximal S/N
top_of(peaks) ==
    peaks[CHOOSE k \in DOMAIN peaks :
              /\ \A j \in DOMAIN peaks : peaks[j].snr <= peaks[k].snr
              /\ \A j \in 1..(k - 1) : peaks[j].snr < peaks[k].snr]

Detection(peaks, pg, period_slice_width) ==
    LET top == top_of(peaks)
        period_slice_mask ==
            [i \in 1..Len(pg.periods) |->
                RLess(RAbs(RSub(<<pg.tobs, pg.periods[i]>>, <<pg.tobs, top.period>>)),
                      RMul(period_slice_width, <<1, 2>>))]
        period_slice_indices == where(period_slice_mask)
    IN  [peaks |-> peaks,
         period |-> top.period, snr |-> top.snr, dm |-> top.dm, iw |-> top.iw,
         width |-> top.width, ducy |-> top.ducy,
         period_trials |-> fancy_index([k \in DOMAIN period_slice_indices |->
                               At(pg.periods, period_slice_indices[k])]),
         snr_trials |-> fancy_index([k \in DOMAIN period_slice_indices |->
                               At(pg.snrs, period_slice_indices[k])]),
         width_trials |-> basic_slice("widths"),
         metadata |-> reference("metadata")]

\* what a Detection exposes when its data attributes are read
exposed(det, pg) ==
    [period_trials |-> read(det.period_trials, pg),
     snr_trials |-> read(det.snr_trials, pg),
     width_trials |-> read(det.width_trials, pg),
     metadata |-> read(det.metadata, pg)]

---------------------------------------------------------------------------
(* find_peaks: the second stage of clustering *)

\* max() of an empty peak group raises ValueError
merge_raises(pool, pg, c) ==
    LET dbi == [k \in DOMAIN pool |-> <<pg.tobs, pool[k].period>>]
        clusters == cluster_1d(dbi, c.peak_clustering_radius)
    IN  \E g \in DOMAIN clusters : clusters[g] = <<>>

\* find_peaks without the second stage of clustering
mutant_merge(pool, pg, c) ==
    [g \in DOMAIN pool |-> Detection(<<pool[g]>>, pg, c.period_slice_width)]

merge(pool, pg, c) ==
    LET dbi == [k \in DOMAIN pool |-> <<pg.tobs, pool[k].period>>]
        clusters == cluster_1d(dbi, c.peak_clustering_radius)
        peak_group(ci) == [k \in DOMAIN ci |-> At(pool, ci[k])]
    IN  [g \in DOMAIN clusters |->
            Detection(peak_group(clusters[g]), pg, c.period_slice_width)]

---------------------------------------------------------------------------
(* Inputs *)

\* S/N values of the grid, in units of 0.5
SnrVals == {13, 14, 16}
\* width-trial arrays and numbers of grid columns
WidthSeqs == {<<1>>, <<1, 2>>}
ColCounts == {1, 2}
\* keyword arguments
SegLens == {<<3, 1>>}
SegOnlyLens == {<<1, 2>>, <<1, 1>>, <<3, 1>>, <<10, 1>>}
MinSegs == {2, 3}
PolyDegs == {0, 1}
Radii == {<<1, 5>>, <<2, 1>>}
\* coefficients np.polyfit may return for a degree >= 1
FitCoefVals == {-5, 20}

Increasing(s) == \A i \in 1..(Len(s) - 1) : s[i] < s[i + 1]
Decreasing(s) == \A i \in 1..(Len(s) - 1) : s[i] > s[i + 1]

SeqsUpTo(vals, maxn) == UNION {[1..n -> vals] : n \in 1..maxn}

Configs(seglens) ==
    [segment_dftbins_length : seglens, min_segments : MinSegs, snr_min : {13},
     nsigma : {<<13, 2>>}, peak_clustering_radius : Radii, polydeg : PolyDegs,
     period_slice_width : {<<1, 1>>}]

\* coefficient vectors with a slope: below the floor at some periods, above
\* it at others
Fits(polydeg) ==
    {f \in [1..(polydeg + 1) -> {<<v, 1>> : v \in FitCoefVals}] :
        f[1] # f[polydeg + 1]}

Idle ==
    /\ pc = "start"
    /\ boundaries = <<>>
    /\ iwidth = 0
    /\ singles = <<>>
    /\ all_peaks = <<>>
    /\ detections = <<>>
    /\ built = <<>>

Grids(shapes) ==
    UNION {
        {[periods |-> ps, widths |-> sh[1], snrs |-> g, tobs |-> 12,
          metadata |-> [dm |-> 0], bins_avg |-> 8] :
            g \in [1..Len(ps) -> [1..sh[2] -> SnrVals]]} :
        <<ps, sh>> \in {s \in SeqsUpTo(PeriodVals, MaxTrials) : Increasing(s)} \X shapes}

\* the number of grid columns equals the number of width trials
WellFormed(pg) == ncols(pg) = Len(pg.widths)

\* find_peaks called on a well-formed grid
Init ==
    /\ pgram \in Grids({sh \in WidthSeqs \X ColCounts : Len(sh[1]) = sh[2]})
    /\ cfg \in Configs(SegLens)
    /\ Idle

\* find_peaks called on a grid with too many or too few columns
InitMalformed ==
    /\ pgram \in Grids({sh \in WidthSeqs \X ColCounts : Len(sh[1]) # sh[2]})
    /\ cfg \in Configs(SegLens)
    /\ Idle

\* segment() alone, on any monotonic period array
InitSeg ==
    /\ \E ps \in {s \in SeqsUpTo(SegPeriodVals, MaxSegTrials) :
                      Increasing(s) \/ Decreasing(s)},
          tobs \in TobsVals :
              pgram = [periods |-> ps, widths |-> <<1>>,
                       snrs |-> [i \in 1..Len(ps) |-> <<13>>], tobs |-> tobs,
                       metadata |-> [dm |-> 0], bins_avg |-> 8]
    /\ cfg \in {c \in Configs(SegOnlyLens) :
                   /\ c.min_segments = 2 /\ c.polydeg = 0
                   /\ c.peak_clustering_radius = <<1, 5>>}
    /\ Idle

---------------------------------------------------------------------------
(* Actions *)

\* boundaries = segment(pgram.periods, pgram.tobs, ...)
SegmentStep ==
    /\ pc = "start"
    /\ boundaries' = segment(pgram.periods, pgram.tobs, cfg.segment_dftbins_length)
    /\ pc' = "loop"
    /\ UNCHANGED <<pgram, cfg, iwidth, singles, all_peaks, detections, built>>

EmptySegment == \E k \in DOMAIN boundaries : boundaries[k].istart >= boundaries[k].iend

\* one iteration of the loop over widths, find_peaks_single returning
SingleReturns ==
    /\ pc = "loop"
    /\ iwidth < Len(pgram.widths)
    /\ iwidth < ncols(pgram)
    /\ \E fit \in IF use_static(Len(boundaries), cfg.min_segments) \/ cfg.polydeg = 0
                  THEN {<<>>} ELSE Fits(cfg.polydeg) :
          LET out == find_peaks_single(pgram, iwidth, boundaries, cfg, fit)
          IN  /\ singles' = Append(singles, out)
              /\ all_peaks' = all_peaks \o out.peaks
    /\ iwidth' = iwidth + 1
    /\ UNCHANGED <<pgram, cfg, pc, boundaries, detections, built>>

\* one iteration of the loop over widths, find_peaks_single raising:
\* pgram.snrs[:, iwidth] past the last column, or np.percentile of an empty
\* slice in the builds where that raises
SingleRaises ==
    /\ pc = "loop"
    /\ iwidth < Len(pgram.widths)
    /\ iwidth >= ncols(pgram) \/ EmptySegment
    /\ pc' = "error"
    /\ UNCHANGED <<pgram, cfg, boundaries, iwidth, singles, all_peaks, detections, built>>

\* the second stage of clustering and the return
MergeStep ==
    /\ pc = "loop"
    /\ iwidth = Len(pgram.widths)
    /\ IF merge_raises(all_peaks, pgram, cfg)
       THEN /\ pc' = "error"
            /\ UNCHANGED <<detections, built>>
       ELSE /\ detections' = merge(all_peaks, pgram, cfg)
            /\ built' = [k \in DOMAIN detections' |-> exposed(detections'[k], pgram)]
            /\ pc' = "done"
    /\ UNCHANGED <<pgram, cfg, boundaries, iwidth, singles, all_peaks>>

\* Later in-place modifications of the grid by its owner, while the caller
\* holds the Detections
ModifyPeriods ==
    /\ pc = "done"
    /\ detections # <<>>
    /\ \E i \in DOMAIN pgram.periods :
          pgram' = [pgram EXCEPT !.periods[i] = @ + 10]
    /\ pc' = "modified"
    /\ UNCHANGED <<cfg, boundaries, iwidth, singles, all_peaks, detections, built>>

ModifySnrs ==
    /\ pc = "done"
    /\ detections # <<>>
    /\ \E i \in DOMAIN pgram.snrs :
          pgram' = [pgram EXCEPT !.snrs[i][1] = @ + 1]
    /\ pc' = "modified"
    /\ UNCHANGED <<cfg, boundaries, iwidth, singles, all_peaks, detections, built>>

ModifyWidths ==
    /\ pc = "done"
    /\ detections # <<>>
    /\ pgram' = [pgram EXCEPT !.widths[1] = @ + 10]
    /\ pc' = "modified"
    /\ UNCHANGED <<cfg, boundaries, iwidth, singles, all_peaks, detections, built>>

ModifyMetadata ==
    /\ pc = "done"
    /\ detections # <<>>
    /\ pgram' = [pgram EXCEPT !.metadata.dm = @ + 1]
    /\ pc' = "modified"
    /\ UNCHANGED <<cfg, boundaries, iwidth, singles, all_peaks, detections, built>>

Next ==
    \/ SegmentStep
    \/ SingleReturns
    \/ SingleRaises
    \/ MergeStep

NextOwner ==
    \/ Next
    \/ ModifyPeriods
    \/ ModifySnrs
    \/ ModifyWidths
    \/ ModifyMetadata

\* find_peaks on a well-formed grid
Spec == Init /\ [][Next]_vars

\* find_peaks on a malformed grid
SpecMalformed == InitMalformed /\ [][Next]_vars

\* find_peaks on a well-formed grid, whose owner modifies it afterwards
SpecOwner == Init /\ [][NextOwner]_vars

\* segment() alone
SpecSegment == InitSeg /\ [][SegmentStep]_vars

---------------------------------------------------------------------------
(* Properties of segment(), checked under SpecSegment *)

NTrials == Len(pgram.periods)
Segmented == pc # "start"

\* C1: the segments' half-open ranges [istart, iend) are contiguous (the
\* first starts at 0, each later one starts where the previous one ends),
\* the last one ends at N, and every trial index 0..N-1 lies in exactly one
\* segment.
C1_SegmentsPartition ==
    Segmented =>
        /\ Len(boundaries) >= 1
        /\ boundaries[1].istart = 0
        /\ \A k \in 2..Len(boundaries) :
              boundaries[k].istart = boundaries[k - 1].iend
        /\ boundaries[Len(boundaries)].iend = NTrials
        /\ \A i \in 0..(NTrials - 1) :
              Cardinality({k \in DOMAIN boundaries :
                  boundaries[k].istart <= i /\ i < boundaries[k].iend}) = 1

\* several segments, the last one absorbing a remainder
C1_Witness ==
    /\ Segmented
    /\ Len(boundaries) >= 2
    /\ boundaries[1].iend - boundaries[1].istart >= 1
    /\ boundaries[Len(boundaries)].iend - boundaries[Len(boundaries)].istart
         > boundaries[1].iend - boundaries[1].istart

\* C10: every segment is non-empty and its midpoint index lies inside it:
\* istart <= imid < iend <= N.
C10_SegmentsNonEmpty ==
    Segmented =>
        \A k \in DOMAIN boundaries :
            /\ boundaries[k].istart < boundaries[k].iend
            /\ boundaries[k].istart <= boundaries[k].imid
            /\ boundaries[k].imid < boundaries[k].iend
            /\ boundaries[k].iend <= NTrials

---------------------------------------------------------------------------
(* Properties of the threshold policies, checked under Spec *)

\* periods at which a threshold function is queried
QueryPeriods == 1..8

\* t < floor as IEEE comparison: False when t is nan
Below(t, floor) == ~t.nan /\ RLess(t.val, <<floor, 1>>)

\* the polynomial of a dynamic threshold function, before clamping
RawPoly(tf, p) == polyval(tf.polyco, <<Ln10(p), 10>>)

\* C4: whatever the segment statistics and the fitted coefficients, the
\* dynamic threshold function evaluated at any period is never below
\* snr_min: it is the polynomial in log(period) where that is at least
\* snr_min, and snr_min elsewhere.
C4_ThresholdFloor ==
    \A k \in DOMAIN singles :
        singles[k].tfunc.dynamic =>
            \A p \in QueryPeriods :
                LET t == tfunc_at(singles[k].tfunc, p)
                IN  /\ ~Below(t, cfg.snr_min)
                    /\ ~t.nan =>
                          \/ /\ t.val = RawPoly(singles[k].tfunc, p)
                             /\ RLeq(<<cfg.snr_min, 1>>, t.val)
                          \/ /\ t.val = <<cfg.snr_min, 1>>
                             /\ RLeq(RawPoly(singles[k].tfunc, p), t.val)

\* a fitted polynomial that is below the floor at one period and above it
\* at another
C4_Witness ==
    \E k \in DOMAIN singles :
        /\ singles[k].tfunc.dynamic
        /\ ~singles[k].tfunc.nan
        /\ \E p, q \in QueryPeriods :
              /\ RLess(RawPoly(singles[k].tfunc, p), <<cfg.snr_min, 1>>)
              /\ RLess(<<cfg.snr_min, 1>>, RawPoly(singles[k].tfunc, q))

\* C5: the policy is chosen by the segment count alone.  With at most
\* min_segments - 1 segments the threshold is snr_min at every trial and
\* the coefficient vector is polydeg + 1 zeros; with min_segments segments
\* or more the threshold is the clamped fitted polynomial.
C5_PolicySwitch ==
    \A k \in DOMAIN singles :
        LET s == singles[k]
        IN  /\ Len(s.threshold) = NTrials
            /\ Len(s.polyco) = cfg.polydeg + 1
            /\ Len(boundaries) <= cfg.min_segments - 1 =>
                  /\ ~s.tfunc.dynamic
                  /\ \A i \in DOMAIN s.threshold :
                        ~s.threshold[i].nan /\ s.threshold[i].val = <<cfg.snr_min, 1>>
                  /\ \A j \in DOMAIN s.polyco : s.polyco[j] = <<0, 1>>
            /\ Len(boundaries) >= cfg.min_segments =>
                  /\ s.tfunc.dynamic
                  /\ \A i \in DOMAIN s.threshold :
                        \/ s.threshold[i].nan
                        \/ s.threshold[i].val =
                              RMax(polyval(s.polyco, <<Ln10(pgram.periods[i]), 10>>),
                                   <<cfg.snr_min, 1>>)

\* one segment fewer than the minimum: the static policy was applied
C5_Witness ==
    /\ singles # <<>>
    /\ Len(boundaries) = cfg.min_segments - 1
    /\ \E i \in 1..NTrials : pgram.snrs[i][1] > cfg.snr_min

\* exactly the minimum: the dynamic policy was applied
C5_AtMinimum ==
    /\ singles # <<>>
    /\ Len(boundaries) = cfg.min_segments
    /\ singles[1].tfunc.dynamic
    /\ ~singles[1].tfunc.nan

---------------------------------------------------------------------------
(* Properties of find_peaks_single, checked under Spec *)

\* |tobs / p - tobs / q| < peak_clustering_radius
Near(p, q) ==
    RLess(RAbs(RSub(<<pgram.tobs, p>>, <<pgram.tobs, q>>)),
          cfg.peak_clustering_radius)

\* the periods of P joined to one of C by a chain of periods of P whose
\* consecutive DFT-bin values differ by less than the radius
RECURSIVE Component(_, _)
Component(P, C) ==
    LET D == C \cup {q \in P : \E p \in C : Near(p, q)}
    IN  IF D = C THEN C ELSE Component(P, D)

ClusterOf(P, p) == Component(P, {p})

\* snr > t as IEEE comparison: False when t is nan
Above(snr, t) == ~t.nan /\ RLess(t.val, <<snr, 1>>)

TrialOf(p) == CHOOSE i \in 1..NTrials : pgram.periods[i] = p
SnrAt(p, k) == pgram.snrs[TrialOf(p)][k]

\* the periods of the significant trials of column k, from what was returned
SigPeriods(k) ==
    {pgram.periods[i] : i \in {j \in 1..NTrials :
        Above(pgram.snrs[j][k], singles[k].threshold[j])}}

\* C3: in one width column a trial is significant iff its S/N is strictly
\* above the threshold at its period.  No significant trial: no Peak.
\* Otherwise one Peak per cluster of significant trials, with the period
\* and S/N of a member of maximum S/N, this column's width index and width,
\* the grid's dm and duty cycle width / bins_avg.
C3_SinglePeaks ==
    \A k \in DOMAIN singles :
        LET P == SigPeriods(k)
            pk == singles[k].peaks
        IN  /\ \A i \in 1..NTrials :
                  singles[k].threshold[i] = tfunc_at(singles[k].tfunc, pgram.periods[i])
            /\ P = {} => pk = <<>>
            /\ Len(pk) = Cardinality({ClusterOf(P, p) : p \in P})
            /\ \A i, j \in DOMAIN pk :
                  i # j => ClusterOf(P, pk[i].period) # ClusterOf(P, pk[j].period)
            /\ \A j \in DOMAIN pk :
                  /\ pk[j].period \in P
                  /\ pk[j].snr = SnrAt(pk[j].period, k)
                  /\ \A q \in ClusterOf(P, pk[j].period) : SnrAt(q, k) <= pk[j].snr
                  /\ pk[j].iw = k - 1
                  /\ pk[j].width = pgram.widths[k]
                  /\ pk[j].dm = pgram.metadata.dm
                  /\ pk[j].ducy[1] * pgram.bins_avg = pgram.widths[k] * pk[j].ducy[2]

\* a cluster of two significant trials whose maximum is not the first one
\* the cluster lists, next to a trial that is not significant
C3_Witness ==
    \E k \in DOMAIN singles :
        /\ Len(singles[k].peaks) = 1
        /\ Cardinality(SigPeriods(k)) = 2
        /\ \E p \in SigPeriods(k) :
              /\ SnrAt(p, k) < singles[k].peaks[1].snr
              /\ p > singles[k].peaks[1].period

\* every S/N value is at or below its threshold
NoSignificant ==
    /\ Len(singles) = Len(pgram.widths)
    /\ \A k \in DOMAIN singles : SigPeriods(k) = {}

\* C7: when no width trial yields a Peak, find_peaks returns an empty list
\* of Detections and raises no error.
C7_EmptyPool ==
    (NoSignificant /\ pc # "loop") =>
        (pc = "done" /\ all_peaks = <<>> /\ detections = <<>>)

\* two width trials, a trial exactly at its threshold, and no Peak
C7_Witness ==
    /\ pc = "done"
    /\ NoSignificant
    /\ Len(pgram.widths) = 2
    /\ detections = <<>>
    /\ \E k \in DOMAIN singles : \E i \in 1..NTrials :
          /\ ~singles[k].threshold[i].nan
          /\ singles[k].threshold[i].val = <<pgram.snrs[i][k], 1>>

---------------------------------------------------------------------------
(* Properties of the merge stage, checked under Spec *)

PoolPeriods == {all_peaks[i].period : i \in DOMAIN all_peaks}

\* the Detections holding pooled Peak i
HoldersOf(i) ==
    {d \in DOMAIN detections :
        \E m \in DOMAIN detections[d].peaks : detections[d].peaks[m] = all_peaks[i]}

\* C2: one Detection per cluster of the pooled Peaks on tobs / period;
\* every pooled Peak is in the peaks list of exactly one Detection; a
\* Detection's period, S/N, width index, width and duty cycle are those of
\* a member of maximal S/N; Peaks at one period in several width trials
\* are in one Detection.
C2_OneDetectionPerCluster ==
    pc = "done" =>
        /\ Len(detections) =
              Cardinality({ClusterOf(PoolPeriods, p) : p \in PoolPeriods})
        /\ \A i \in DOMAIN all_peaks : Cardinality(HoldersOf(i)) = 1
        /\ SumSeq([d \in DOMAIN detections |-> Len(detections[d].peaks)])
              = Len(all_peaks)
        /\ \A d \in DOMAIN detections :
              LET g == detections[d].peaks
              IN  /\ g # <<>>
                  /\ {g[m].period : m \in DOMAIN g}
                        = ClusterOf(PoolPeriods, g[1].period)
                  /\ \E m \in DOMAIN g :
                        /\ \A n \in DOMAIN g : g[n].snr <= g[m].snr
                        /\ detections[d].period = g[m].period
                        /\ detections[d].snr = g[m].snr
                        /\ detections[d].iw = g[m].iw
                        /\ detections[d].width = g[m].width
                        /\ detections[d].ducy = g[m].ducy
        /\ \A i, j \in DOMAIN all_peaks :
              all_peaks[i].period = all_peaks[j].period => HoldersOf(i) = HoldersOf(j)

\* Peaks at the same period in two width trials merged into one Detection,
\* represented by the second width's Peak
C2_Witness ==
    /\ pc = "done"
    /\ \E d \in DOMAIN detections :
          /\ Len(detections[d].peaks) >= 2
          /\ detections[d].iw = 1
          /\ \E m \in DOMAIN detections[d].peaks :
                /\ detections[d].peaks[m].iw = 0
                /\ detections[d].peaks[m].period = detections[d].period

\* the orders in which the width trials' contributions can arrive
Arrivals ==
    {f \in [DOMAIN singles -> DOMAIN singles] :
        \A a, b \in DOMAIN singles : f[a] = f[b] => a = b}

\* the pool when the first k contributions arrive in order f
RECURSIVE PoolIn(_, _)
PoolIn(f, k) ==
    IF k = 0 THEN <<>> ELSE PoolIn(f, k - 1) \o singles[f[k]].peaks

MergedIn(f) == merge(PoolIn(f, Len(singles)), pgram, cfg)

Groups(dets) ==
    {[members |-> Range(dets[d].peaks), period |-> dets[d].period,
      snr |-> dets[d].snr] : d \in DOMAIN dets}

GroupsWithWidth(dets) ==
    {[members |-> Range(dets[d].peaks), period |-> dets[d].period,
      snr |-> dets[d].snr, iw |-> dets[d].iw, width |-> dets[d].width] :
        d \in DOMAIN dets}

\* two Peaks of the group at the same period both have its maximal S/N
TiedTop(det) ==
    \E a, b \in Range(det.peaks) :
        a # b /\ a.period = b.period /\ a.snr = det.snr /\ b.snr = det.snr

---------------------------------------------------------------------------
(* Malformed grids, checked under SpecMalformed *)

\* C6: on a grid whose number of columns differs from the number of width
\* trials find_peaks fails: it never returns Detections.
C6_MalformedFailsFast ==
    ~WellFormed(pgram) => pc # "done"

---------------------------------------------------------------------------
(* Ownership of a Detection's data, checked under SpecOwner *)

\* C8: after a later modification of the grid's period trials, S/N values,
\* width trials or metadata, every Detection still exposes the
\* period_trials, snr_trials, width_trials and metadata it was built with.
C8_DetectionOwnsCopies ==
    pc = "modified" =>
        \A k \in DOMAIN detections : exposed(detections[k], pgram) = built[k]

\* the part of C8 the code keeps: period_trials and snr_trials are copies
DetectionOwnsTrials ==
    pc = "modified" =>
        \A k \in DOMAIN detections :
            /\ read(detections[k].period_trials, pgram) = built[k].period_trials
            /\ read(detections[k].snr_trials, pgram) = built[k].snr_trials

====
